---- MODULE Spec2Model ----
(***************************************************************************)
(* Model of src/app.py: the sentiment requester                            *)
(* (analyze_sentiment_with_words), the entity extractor (extract_entities) *)
(* and the Streamlit presentation loop (main).                             *)
(*                                                                         *)
(* Text is modelled as a sequence of fragments (each fragment a run of     *)
(* characters that the code never splits): a narrative is a sequence over  *)
(* Tokens, the empty string is << >>, concatenation is \o.                 *)
(*                                                                         *)
(* The model starts once the module has been imported with the names       *)
(* openai, spacy, re and st bound to their libraries (the legacy openai    *)
(* interface the function bodies are written against).  Lines 4 and 7 of   *)
(* app.py as written (from openai import OPENAI; the unclosed parenthesis  *)
(* of the client construction) stop the import itself; process start-up is *)
(* not part of the state machine.                                          *)
(***************************************************************************)
EXTENDS Integers, Sequences, FiniteSets, TLC

VARIABLES pc, review, category, analysis, entities, screen, events, env, probe,
          call, ret

vars == <<pc, review, category, analysis, entities, screen, events, env, probe,
          call, ret>>

mainVars == <<pc, review, category, analysis, entities, screen, events, env, probe>>

harnessVars == <<call, ret>>

\* Longest narrative (in fragments) the remote service answers with.
MaxLen == 6

\* Most entities the language model reports for one review.
MaxEnts == 2

NoValue == [none |-> TRUE]

-----------------------------------------------------------------------------
(* Text fragments *)

OS == "Overall sentiment: "

PC == "Percentage: "

NL == "\n"

\* The fragments every narrative up to MaxLen is built from.
Tokens == {OS, "POSITIVE", PC, "7", "%", NL}

Digits == {"0", "1", "2", "3", "4", "5", "6", "7", "8", "9"}

\* str.lower() / re.IGNORECASE folding of one fragment.
Lower(t) ==
    IF t = OS THEN "overall sentiment: "
    ELSE IF t = PC THEN "percentage: "
    ELSE IF t = "POSITIVE" THEN "positive"
    ELSE IF t = "Positive" THEN "positive"
    ELSE IF t = "Negative" THEN "negative"
    ELSE t

\* The narrative left in its own letter case (what content.lower() must not be).
LowerTextNoFold(s) == s

\* content.lower()
LowerText(s) == [i \in 1..Len(s) |-> Lower(s[i])]

Min(S) == CHOOSE x \in S : \A y \in S : x <= y

-----------------------------------------------------------------------------
(* re.search(r'Overall sentiment: (positive|negative).*?Percentage: (\d+)%',
             content, re.IGNORECASE) *)

\* Length of the longest run of digits of s that starts at position j (\d+ is greedy).
DigitRun(s, j) ==
    LET Ends == {k \in 0..(Len(s) - j + 1) : \A m \in j..(j + k - 1) : s[m] \in Digits}
    IN  CHOOSE k \in Ends : \A l \in Ends : l <= k

\* "Overall sentiment: (positive|negative)" at position i.
HeadAt(s, i) ==
    /\ i + 1 <= Len(s)
    /\ Lower(s[i]) = "overall sentiment: "
    /\ Lower(s[i + 1]) \in {"positive", "negative"}

\* "Percentage: (\d+)%" at position j.
TailAt(s, j) ==
    /\ j <= Len(s)
    /\ Lower(s[j]) = "percentage: "
    /\ DigitRun(s, j + 1) >= 1
    /\ j + 1 + DigitRun(s, j + 1) <= Len(s)
    /\ s[j + 1 + DigitRun(s, j + 1)] = "%"

\* ".*?" over positions a..b-1: "." matches any character but a line feed.
GapOk(s, a, b) == \A m \in a..(b - 1) : s[m] # NL

\* Where the tail may start for a match that starts at i.
MatchEnds(s, i) == {j \in (i + 2)..Len(s) : GapOk(s, i + 2, j) /\ TailAt(s, j)}

MatchStarts(s) == {i \in 1..Len(s) : HeadAt(s, i) /\ MatchEnds(s, i) # {}}

\* The leftmost match, its gap the shortest; NoValue when there is none.
re_search(s) ==
    IF MatchStarts(s) = {} THEN NoValue
    ELSE LET i == Min(MatchStarts(s))
             j == Min(MatchEnds(s, i))
         IN  [group1 |-> <<s[i + 1]>>,
              group2 |-> SubSeq(s, j + 1, j + DigitRun(s, j + 1))]

-----------------------------------------------------------------------------
(* The remote text-generation call and analyze_sentiment_with_words *)

\* What the caller may pass: the review may be empty, the category any string.
Reviews == {<< >>, <<" ">>, <<"Apple released a new phone in Paris.">>}

Categories == {"Food", "Product", "Place", "Other"}

AnyCategories == {"Food", "Gadget"}

\* prompt = f"Analyze the following {category} review ... Review: {review}"
BuildPrompt(rev, cat) ==
    <<"Analyze the following ", cat, " review for sentiment. ",
      "Provide the sentiment contribution of each significant word as a percentage and indicate whether the overall sentiment is positive or negative:\n",
      "Review: ">> \o rev

\* The request of openai.ChatCompletion.create(model=..., messages=[...]).
ChatRequest(rev, cat) ==
    [model |-> "gpt-4",
     messages |-> <<[role |-> "system",
                     content |-> <<"You are an expert in sentiment analysis.">>],
                    [role |-> "user", content |-> BuildPrompt(rev, cat)]>>]

\* Exceptions of the openai library that derive from openai.error.OpenAIError.
OpenAIErrors == {"APIConnectionError", "AuthenticationError", "RateLimitError", "APIError"}

\* A well-formed chat completion whose message carries narrative n.
Completion(n) == [choices |-> <<[message |-> [role |-> "assistant", content |-> n]]>>]

\* Responses that arrive but lack the narrative field.
MalformedBodies ==
    {[id |-> "chatcmpl"],
     [choices |-> << >>],
     [choices |-> <<[index |-> 0]>>],
     [choices |-> <<[message |-> [role |-> "assistant"]]>>]}

Raised(e) == [raises |-> TRUE, exc |-> e, value |-> NoValue]

Returned(v) == [raises |-> FALSE, exc |-> "none", value |-> v]

\* Outcomes of the remote call: the library raises, or a response body arrives.
RemoteFailures == {Raised(e) : e \in OpenAIErrors}

RemoteMalformed == {Returned(b) : b \in MalformedBodies}

RemoteOk(N) == {Returned(Completion(n)) : n \in N}

\* response['choices'][0]['message']['content']
Subscript(body) ==
    IF "choices" \notin DOMAIN body THEN Raised("KeyError")
    ELSE IF Len(body.choices) < 1 THEN Raised("IndexError")
    ELSE IF "message" \notin DOMAIN body.choices[1] THEN Raised("KeyError")
    ELSE IF "content" \notin DOMAIN body.choices[1].message THEN Raised("KeyError")
    ELSE Returned(body.choices[1].message.content)

\* The requests a retrying caller would send: a second attempt after a failure.
RequestsSentRetry(rev, cat, remote) ==
    IF remote.raises THEN <<ChatRequest(rev, cat), ChatRequest(rev, cat)>>
    ELSE <<ChatRequest(rev, cat)>>

\* The requests one invocation sends: the single create(...) of the try block.
RequestsSent(rev, cat, remote) == <<ChatRequest(rev, cat)>>

\* "Positive" if "positive" in content.lower() else "Negative"
FallbackSentiment(content) ==
    IF \E i \in 1..Len(content) : LowerText(content)[i] = "positive"
    THEN <<"Positive">> ELSE <<"Negative">>

\* The except branch with the percentage left at the fallback value.
ErrorTripleDefaulted(e) == <<<<"Error with OpenAI API: ", e>>, <<"Error">>, <<"5", "0">>>>

\* return f"Error with OpenAI API: {e}", "Error", "Error"
ErrorTriple(e) == <<<<"Error with OpenAI API: ", e>>, <<"Error">>, <<"Error">>>>

\* The statements of the try block after the call: the subscript, then the parse.
ParseContent(content) ==
    LET match == re_search(content)
    IN  IF match # NoValue
        THEN <<content, match.group1, match.group2>>
        ELSE <<content, FallbackSentiment(content), <<"5", "0">>>>

TryBlock(remote) ==
    IF remote.raises THEN remote
    ELSE LET got == Subscript(remote.value)
         IN  IF got.raises THEN got ELSE Returned(ParseContent(got.value))

\* analyze_sentiment_with_words(review, category), the outcome of the remote
\* call given by the environment: what it returns or raises, and what it sent.
analyze_sentiment_with_words(rev, cat, remote) ==
    LET body == TryBlock(remote)
        out  == IF body.raises /\ body.exc \in OpenAIErrors
                THEN Returned(ErrorTriple(body.exc))
                ELSE body
    IN  [raises |-> out.raises, exc |-> out.exc, value |-> out.value,
         requests |-> RequestsSent(rev, cat, remote)]

-----------------------------------------------------------------------------
(* The language model and extract_entities *)

\* Python values whose type the caller inspects: a str or a list.
Str(t) == [type |-> "str", val |-> t]

List(xs) == [type |-> "list", val |-> xs]

\* Entity spans the model may report (doc.ents), each with text and label_.
Spans ==
    {[text |-> "Apple", label_ |-> "ORG", start_char |-> 0],
     [text |-> "Paris", label_ |-> "GPE", start_char |-> 30],
     [text |-> "phone", label_ |-> "PRODUCT", start_char |-> 21],
     [text |-> "Apple", label_ |-> "PERSON", start_char |-> 0]}

Docs == {[ents |-> e] : e \in UNION {[1..n -> Spans] : n \in 0..MaxEnts}}

\* Outcomes of spacy.load("en_core_web_sm") and of nlp(review).
LoadOutcomes == {Returned("nlp"), Raised("OSError"), Raised("ValueError")}

InferOutcomes == {Raised("OSError"), Raised("RuntimeError")} \cup {Returned(d) : d \in Docs}

ModelOutcomes ==
    {[load |-> l, infer |-> i] : l \in {Returned("nlp")}, i \in InferOutcomes}
        \cup {[load |-> l, infer |-> NoValue] : l \in LoadOutcomes \ {Returned("nlp")}}

\* The comprehension with the entities taken last to first.
EntityPairsReversed(ents) ==
    [i \in 1..Len(ents) |-> <<ents[Len(ents) + 1 - i].text, ents[Len(ents) + 1 - i].label_>>]

\* [(ent.text, ent.label_) for ent in doc.ents]
EntityPairs(ents) == [i \in 1..Len(ents) |-> <<ents[i].text, ents[i].label_>>]

\* The statements of the try block: load, run, collect.
ExtractTry(model) ==
    IF model.load.raises THEN model.load
    ELSE IF model.infer.raises THEN model.infer
    ELSE Returned(List(EntityPairs(model.infer.value.ents)))

\* extract_entities(review), the outcomes of the model given by the environment:
\* what it returns or raises, and how often it loaded and ran the model.
extract_entities(rev, model) ==
    LET body == ExtractTry(model)
        out  == IF ~body.raises THEN body
                ELSE IF body.exc = "OSError"
                THEN Returned(Str(<<"Error loading SpaCy model: ", body.exc>>))
                ELSE Returned(Str(<<"Unexpected error: ", body.exc>>))
    IN  [raises |-> out.raises, exc |-> out.exc, value |-> out.value,
         loads |-> 1, runs |-> IF model.load.raises THEN 0 ELSE 1]

-----------------------------------------------------------------------------
(* The stages called on their own: every argument, every outcome *)

Narratives == UNION {[1..n -> Tokens] : n \in 0..MaxLen}

\* Further narratives, with both sentiment words and other text; the presentation
\* loop is exercised with these.
SomeNarratives ==
    {<<OS, "positive", " with ", PC, "7", "3", "%">>,
     <<OS, "Negative", ". ", PC, "7", "%", NL, "POSITIVE">>,
     <<OS, "negative", NL, PC, "7", "%">>,
     <<"POSITIVE">>,
     <<"7", "%">>}

AnalyzeCalls ==
    {[fn |-> "analyze", review |-> r, category |-> c, remote |-> x] :
        r \in Reviews, c \in AnyCategories,
        x \in RemoteFailures \cup RemoteMalformed \cup RemoteOk(SomeNarratives)}
    \cup
    {[fn |-> "analyze", review |-> <<"Apple released a new phone in Paris.">>,
      category |-> "Product", remote |-> x] : x \in RemoteOk(Narratives)}

ExtractCalls ==
    {[fn |-> "extract", review |-> r, model |-> m] : r \in Reviews, m \in ModelOutcomes}

\* The presentation loop at rest, nothing rendered yet.
MainAtRest ==
    /\ pc = "Idle"
    /\ review = << >>
    /\ category = "Food"
    /\ analysis = NoValue
    /\ entities = NoValue
    /\ screen = << >>
    /\ events = << >>
    /\ env = [remote |-> NoValue, model |-> NoValue]
    /\ probe = NoValue

InitAnalyze == MainAtRest /\ call \in AnalyzeCalls /\ ret = NoValue

CallAnalyze ==
    /\ call.fn = "analyze"
    /\ ret = NoValue
    /\ ret' = analyze_sentiment_with_words(call.review, call.category, call.remote)
    /\ UNCHANGED <<call, mainVars>>

NextAnalyze == CallAnalyze

SpecAnalyze == InitAnalyze /\ [][NextAnalyze]_vars

InitExtract == MainAtRest /\ call \in ExtractCalls /\ ret = NoValue

CallExtract ==
    /\ call.fn = "extract"
    /\ ret = NoValue
    /\ ret' = extract_entities(call.review, call.model)
    /\ UNCHANGED <<call, mainVars>>

NextExtract == CallExtract

SpecExtract == InitExtract /\ [][NextExtract]_vars

-----------------------------------------------------------------------------
(* Properties of analyze_sentiment_with_words, under SpecAnalyze *)

AnalyzeDone == call.fn = "analyze" /\ ret # NoValue

\* The remote call failed: the library raised, or the response lacks the narrative.
RemoteFailed(x) == x.raises \/ x.value \in MalformedBodies

\* The narrative of a response that carries one.
NarrativeOf(x) == x.value.choices[1].message.content

Verdicts == {<<"Positive">>, <<"Negative">>, <<"Error">>}

SentimentWords == {"positive", "Positive", "POSITIVE", "negative", "Negative", "NEGATIVE"}

PositiveSpellings == {"positive", "Positive", "POSITIVE"}

\* n holds "Overall sentiment: <word>" at i and "Percentage: <k digits>%" at j,
\* in any letter case.
VerdictAt(n, i, j, k) ==
    /\ i + 2 <= j
    /\ k >= 1
    /\ j + k + 1 <= Len(n)
    /\ n[i] \in {OS, "overall sentiment: ", "OVERALL SENTIMENT: "}
    /\ n[i + 1] \in SentimentWords
    /\ n[j] \in {PC, "percentage: ", "PERCENTAGE: "}
    /\ \A m \in (j + 1)..(j + k) : n[m] \in Digits
    /\ n[j + k + 1] = "%"

\* The verdict lines of n, as <<i, j, k>>, the text between the two parts arbitrary.
VerdictLines(n) ==
    UNION {UNION {{<<i, j, k>> : k \in {l \in 1..(Len(n) - j - 1) : VerdictAt(n, i, j, l)}} :
                     j \in {m \in (i + 2)..(Len(n) - 2) : n[m] \in {PC, "percentage: ", "PERCENTAGE: "}}} :
              i \in {m \in 1..(Len(n) - 4) : n[m] \in {OS, "overall sentiment: ", "OVERALL SENTIMENT: "}}}

\* Those whose two parts stand on one line.
OneLineVerdicts(n) ==
    {t \in VerdictLines(n) : \A m \in (t[1] + 2)..(t[2] - 1) : n[m] # NL}

IsDigitString(t) == Len(t) >= 1 /\ \A m \in 1..Len(t) : t[m] \in Digits

\* C1 (as claimed): analyze never raises and always returns a 3-tuple whose second
\* element is one of "Positive", "Negative", "Error".
C1_NeverRaisesVerdictInSet ==
    AnalyzeDone =>
        /\ ~ret.raises
        /\ Len(ret.value) = 3
        /\ ret.value[2] \in Verdicts

\* C2 (as claimed): when the narrative holds a verdict line, whatever text stands
\* between its two parts, analyze returns the sentiment word and the digits of such a
\* line verbatim (so the fallback "Positive"/"Negative", "50" is not what it returns).
C2_VerdictLineIsReturned ==
    (AnalyzeDone /\ ~RemoteFailed(call.remote)
        /\ VerdictLines(NarrativeOf(call.remote)) # {}) =>
        /\ ~ret.raises
        /\ \E t \in VerdictLines(NarrativeOf(call.remote)) :
              /\ ret.value[2] = <<NarrativeOf(call.remote)[t[1] + 1]>>
              /\ ret.value[3] = SubSeq(NarrativeOf(call.remote), t[2] + 1, t[2] + t[3])

\* C3: when the remote call succeeds and the narrative holds no match of the verdict
\* pattern, analyze returns the narrative unchanged, "Positive" if "positive" occurs
\* in it in any letter case and "Negative" otherwise, and the percentage "50".
C3_FallbackVerdict ==
    (AnalyzeDone /\ ~RemoteFailed(call.remote)
        /\ OneLineVerdicts(NarrativeOf(call.remote)) = {}) =>
        /\ ~ret.raises
        /\ ret.value =
              <<NarrativeOf(call.remote),
                IF \E m \in 1..Len(NarrativeOf(call.remote)) :
                       NarrativeOf(call.remote)[m] \in PositiveSpellings
                THEN <<"Positive">> ELSE <<"Negative">>,
                <<"5", "0">>>>

\* C3 witness: a narrative without a verdict line that says POSITIVE in capitals
\* came back, and the fallback answered "Positive", "50".
C3_Witness ==
    /\ AnalyzeDone
    /\ ~RemoteFailed(call.remote)
    /\ OneLineVerdicts(NarrativeOf(call.remote)) = {}
    /\ \E m \in 1..Len(NarrativeOf(call.remote)) : NarrativeOf(call.remote)[m] = "POSITIVE"
    /\ ~ret.raises
    /\ ret.value[2] = <<"Positive">>
    /\ ret.value[3] = <<"5", "0">>

\* C4 (as claimed): whenever the remote call fails (the library raises, or the
\* response lacks the narrative field) analyze returns (message, "Error", "Error").
C4_FailureGivesErrorTriple ==
    (AnalyzeDone /\ RemoteFailed(call.remote)) =>
        /\ ~ret.raises
        /\ Len(ret.value) = 3
        /\ ret.value[2] = <<"Error">>
        /\ ret.value[3] = <<"Error">>

\* C8: every invocation of analyze sends exactly one request, of two messages: the
\* fixed system instruction, then the user prompt built from category and review;
\* a failure is not followed by a second attempt.
C8_OneRequest ==
    AnalyzeDone =>
        /\ Len(ret.requests) = 1
        /\ Len(ret.requests[1].messages) = 2
        /\ ret.requests[1].messages[1] =
              [role |-> "system", content |-> <<"You are an expert in sentiment analysis.">>]
        /\ ret.requests[1].messages[2].role = "user"
        /\ LET prompt == ret.requests[1].messages[2].content
           IN  /\ prompt[2] = call.category
               /\ Len(prompt) >= Len(call.review)
               /\ SubSeq(prompt, Len(prompt) - Len(call.review) + 1, Len(prompt)) = call.review

\* C8 witness: the remote call failed and analyze finished having sent one request.
C8_Witness ==
    /\ AnalyzeDone
    /\ call.remote.raises
    /\ Len(ret.requests) = 1

\* C10: in every result analyze returns, the sentiment is "Error" exactly when the
\* percentage is "Error" exactly when the remote call failed; after a successful call
\* the percentage is a non-empty digit string and the first element the narrative.
C10_SentinelsAgree ==
    (AnalyzeDone /\ ~ret.raises) =>
        /\ (ret.value[2] = <<"Error">>) <=> (ret.value[3] = <<"Error">>)
        /\ (ret.value[2] = <<"Error">>) <=> RemoteFailed(call.remote)
        /\ ~RemoteFailed(call.remote) =>
              /\ IsDigitString(ret.value[3])
              /\ ret.value[1] = NarrativeOf(call.remote)

\* C10 witness: the library raised and analyze returned with both sentinels "Error".
C10_Witness ==
    /\ AnalyzeDone
    /\ ~ret.raises
    /\ call.remote.raises
    /\ ret.value[2] = <<"Error">>
    /\ ret.value[3] = <<"Error">>

-----------------------------------------------------------------------------
(* Properties of extract_entities, under SpecExtract *)

ExtractDone == call.fn = "extract" /\ ret # NoValue

ModelWorked(m) == ~m.load.raises /\ ~m.infer.raises

\* C5: extract never raises; it returns either the list of (text, label) pairs of the
\* entities, in the order the model reports them, or a string; a list (empty or not)
\* exactly when load and inference both succeeded, a string after either failure.
C5_ListOrString ==
    ExtractDone =>
        /\ ~ret.raises
        /\ ret.value.type \in {"list", "str"}
        /\ (ret.value.type = "list") <=> ModelWorked(call.model)
        /\ ModelWorked(call.model) =>
              /\ Len(ret.value.val) = Len(call.model.infer.value.ents)
              /\ \A i \in 1..Len(ret.value.val) :
                    ret.value.val[i] = <<call.model.infer.value.ents[i].text,
                                         call.model.infer.value.ents[i].label_>>

\* C5 witness: the model reported two different entities and extract returned both.
C5_Witness ==
    /\ ExtractDone
    /\ ModelWorked(call.model)
    /\ Len(call.model.infer.value.ents) = 2
    /\ call.model.infer.value.ents[1] # call.model.infer.value.ents[2]
    /\ ~ret.raises
    /\ ret.value.type = "list"
    /\ Len(ret.value.val) = 2

-----------------------------------------------------------------------------
(* The presentation loop: main() under Streamlit, one script run per interaction *)

El(kind, body) == [el |-> kind, body |-> body]

\* st.title(...); st.write(...): what every script run draws first.
Header ==
    <<El("title", <<"Sentiment Analyzer">>),
      El("write", <<"Enter a review and select its category to analyze sentiment and extract named entities.">>)>>

\* A run that draws below what the previous run left on the page.
StartRunKeeping(prev) == prev \o Header

\* A script run redraws the page from the top: nothing of the previous run stays.
StartRun(prev) == Header

\* A guard that lets every review through.
TruthyAlways(rev) == TRUE

\* if review:
Truthy(rev) == rev # << >>

\* st.subheader / st.text / st.write of the three results of analyze.
RenderAnalysis(v) ==
    <<El("subheader", <<"Sentiment Analysis with Word-Level Contributions:">>),
      El("text", v[1]),
      El("write", <<"**Overall Sentiment:** ">> \o v[2]),
      El("write", <<"**Overall Sentiment Percentage:** ">> \o v[3] \o <<"%">>)>>

\* isinstance(entities, str) ... else ...: the error, the entity lines or the notice.
RenderEntities(e) ==
    IF e.type = "str" THEN <<El("error", e.val)>>
    ELSE <<El("subheader", <<"Named Entities:">>)>> \o
         (IF Len(e.val) > 0
          THEN [i \in 1..Len(e.val) |-> El("write", <<e.val[i][1], " (", e.val[i][2], ")">>)]
          ELSE <<El("write", <<"No named entities found.">>)>>)

Warning == <<El("warning", <<"Please enter a review to analyze.">>)>>

\* An exception that leaves main(): Streamlit shows it and the run stops.
RenderException(e) == <<El("exception", <<e>>)>>

\* Remote and model outcomes the loop is exercised with.
MainRemotes ==
    {Raised("APIConnectionError"), Raised("RateLimitError"), Returned([choices |-> << >>])}
        \cup RemoteOk(SomeNarratives)

MainModels ==
    {[load |-> Raised("OSError"), infer |-> NoValue],
     [load |-> Returned("nlp"), infer |-> Raised("RuntimeError")],
     [load |-> Returned("nlp"), infer |-> Returned([ents |-> << >>])],
     [load |-> Returned("nlp"),
      infer |-> Returned([ents |->
          <<[text |-> "Apple", label_ |-> "ORG", start_char |-> 0],
            [text |-> "Paris", label_ |-> "GPE", start_char |-> 30]>>])]}

NoEnv == [remote |-> NoValue, model |-> NoValue]

Init == MainAtRest /\ call = NoValue /\ ret = NoValue

\* The user changes the category or the review: the script reruns, the button not
\* pressed, and draws the header only.
EditInputs ==
    /\ pc = "Idle"
    /\ \E r \in Reviews, c \in Categories :
          /\ <<r, c>> # <<review, category>>
          /\ review' = r
          /\ category' = c
    /\ screen' = StartRun(screen)
    /\ events' = << >>
    /\ env' = NoEnv
    /\ UNCHANGED <<pc, analysis, entities, probe, harnessVars>>

\* The user presses "Analyze Review": the script reruns up to the guard on the review.
Click ==
    /\ pc = "Idle"
    /\ events' = << >>
    /\ env' = NoEnv
    /\ IF Truthy(review)
       THEN /\ pc' = "Analyzing"
            /\ screen' = StartRun(screen)
       ELSE /\ pc' = "Rendered"
            /\ screen' = StartRun(screen) \o Warning
    /\ UNCHANGED <<review, category, analysis, entities, probe, harnessVars>>

\* analyze_sentiment_with_words(review, category) and the rendering of its results.
AnalyzeStage ==
    /\ pc = "Analyzing"
    /\ \E x \in MainRemotes :
          LET r == analyze_sentiment_with_words(review, category, x)
              sent == [i \in 1..Len(r.requests) |-> "remote"]
          IN  /\ env' = [env EXCEPT !.remote = x]
              /\ IF r.raises
                 THEN /\ pc' = "Aborted"
                      /\ events' = events \o <<"analyze">> \o sent
                      /\ screen' = screen \o RenderException(r.exc)
                      /\ UNCHANGED analysis
                 ELSE /\ pc' = "Extracting"
                      /\ events' = events \o <<"analyze">> \o sent \o <<"analyzed">>
                      /\ screen' = screen \o RenderAnalysis(r.value)
                      /\ analysis' = r.value
    /\ UNCHANGED <<review, category, entities, probe, harnessVars>>

\* extract_entities(review) and the rendering of its result.
ExtractStage ==
    /\ pc = "Extracting"
    /\ \E m \in MainModels :
          LET r == extract_entities(review, m)
              work == [i \in 1..(r.loads + r.runs) |-> IF i <= r.loads THEN "load" ELSE "run"]
          IN  /\ env' = [env EXCEPT !.model = m]
              /\ IF r.raises
                 THEN /\ pc' = "Aborted"
                      /\ events' = events \o <<"extract">> \o work
                      /\ screen' = screen \o RenderException(r.exc)
                      /\ UNCHANGED entities
                 ELSE /\ pc' = "Rendered"
                      /\ events' = events \o <<"extract">> \o work \o <<"extracted">>
                      /\ screen' = screen \o RenderEntities(r.value)
                      /\ entities' = r.value
    /\ UNCHANGED <<review, category, analysis, probe, harnessVars>>

\* What one run was given, and what it produced.
RunKey == <<review, category, env>>

RunOutput == <<analysis, entities, screen>>

\* main() returns (or its exception has been shown): the locals are gone, the page
\* stays, the next interaction is accepted.  An observer may note this run.
EndRun ==
    /\ pc \in {"Rendered", "Aborted"}
    /\ pc' = "Idle"
    /\ analysis' = NoValue
    /\ entities' = NoValue
    /\ \E note \in BOOLEAN :
          probe' = IF note THEN [key |-> RunKey, out |-> RunOutput] ELSE probe
    /\ UNCHANGED <<review, category, screen, events, env, harnessVars>>

Next == EditInputs \/ Click \/ AnalyzeStage \/ ExtractStage \/ EndRun

Spec == Init /\ [][Next]_vars

-----------------------------------------------------------------------------
(* Properties of the presentation loop, under Spec *)

Count(seq, x) == Cardinality({i \in 1..Len(seq) : seq[i] = x})

RunEnded == pc \in {"Rendered", "Aborted"}

\* C6: a press of the button with an empty review draws the warning and invokes no
\* stage: no analyze and no remote call, no extract and no model load or inference.
C6_EmptyReviewNoStage ==
    review = << >> =>
        /\ pc \in {"Idle", "Rendered"}
        /\ events = << >>
        /\ analysis = NoValue
        /\ entities = NoValue
        /\ env = NoEnv
        /\ pc = "Rendered" => screen = Header \o Warning

\* C6 witness: the button was pressed with an empty review and the warning is shown.
C6_Witness ==
    /\ pc = "Rendered"
    /\ review = << >>
    /\ events = << >>
    /\ screen[Len(screen)].el = "warning"

\* C7 (as claimed): every press of the button with a non-empty review ends rendered,
\* analyze invoked once and finished before extract is invoked once.
C7_AnalyzeThenExtract ==
    (RunEnded /\ review # << >>) =>
        /\ pc = "Rendered"
        /\ Count(events, "analyze") = 1
        /\ Count(events, "analyzed") = 1
        /\ Count(events, "extract") = 1
        /\ Count(events, "extracted") = 1
        /\ \A i, j \in 1..Len(events) :
              (events[i] = "analyzed" /\ events[j] = "extract") => i < j

\* C9: a run's results and page depend only on that run's review, category and the
\* remote and model responses it got: a run that gets what a noted earlier run got
\* produces what that run produced, whatever happened in between.
C9_SameInputsSameOutput ==
    (RunEnded /\ probe # NoValue /\ probe.key = RunKey) => probe.out = RunOutput

\* C9 witness: after a noted run, a later run with a non-empty review got the same
\* inputs and responses and has ended.
C9_Witness ==
    /\ pc = "Rendered"
    /\ review # << >>
    /\ probe # NoValue
    /\ probe.key = RunKey
    /\ probe.out = RunOutput
    /\ Len(events) > 0

====
